---- MODULE Spec2Model ----
(***************************************************************************)
(* Resumable concurrent harvesting engine: the discovery pass              *)
(* (src/discover.py) and the retrieval pass (src/download.py).             *)
(*                                                                         *)
(* Threads are modelled at the granularity of their accesses to shared     *)
(* state.  A section of code that runs under a lock and touches only data  *)
(* that is touched under that same lock everywhere is split in two steps:  *)
(* taking the lock together with the first read, and the write together    *)
(* with the release.  Accesses to result_buf are not under any lock in the *)
(* source, so each one is a step of its own.                               *)
(***************************************************************************)
EXTENDS Integers, Sequences, FiniteSets, TLC

(***************************************************************************)
(* Program constants of src/discover.py, scaled down.                      *)
(***************************************************************************)
NUM_WORKERS == 2

TOTAL_ITER == 3

BUFFER_LIMIT == 2

MAX_CONSECUTIVE_FAILS == 2

(* Largest max_iter a previous discovery run has left in PROGRESS_PATH.    *)
MaxStart == 1

Main == 0

Workers == 1..NUM_WORKERS

Threads == {Main} \cup Workers

Free == -1

(* range(TOTAL_ITER): the indices submitted by main.                       *)
TaskRange == 0..(TOTAL_ITER - 1)

(* What one probe of the remote host can answer.                           *)
Probes == {"NotFound", "HTTPError", "RequestException", "NonHTML", "Irrelevant", "Relevant"}

VARIABLES
    progFile,           \* PROGRESS_PATH: the value stored under max_iter
    resultsFile,        \* RESULTS_PATH: the durable list of records
    result_buf,         \* the deque result_buf
    consecutive_fails,  \* the global consecutive_fails
    json_lock,          \* holder of json_lock, or Free
    prog_lock,          \* holder of prog_lock, or Free
    fail_lock,          \* holder of fail_lock, or Free
    fut,                \* state of the future of each task index
    outcome,            \* how each task's probe was classified
    th,                 \* per thread: position and locals
    qhead,              \* next work item the executor's queue hands out
    submitted,          \* number of tasks main has submitted
    mstart,             \* main's local start
    seen,               \* futures as_completed has yielded to main
    cancelIdx,          \* position of main's cancel loop
    interrupted,        \* a KeyboardInterrupt was raised in main
    reported,           \* number of times main printed the RuntimeError
    offered,            \* history: records appended to result_buf
    bhist,              \* history: breaker calls in fail_lock order
    exitStatus          \* exit status of the process, -1 while it runs

dvars == <<progFile, resultsFile, result_buf, consecutive_fails, json_lock, prog_lock,
           fail_lock, fut, outcome, th, qhead, submitted, mstart, seen, cancelIdx,
           interrupted, reported, offered, bhist, exitStatus>>

(***************************************************************************)
(* Program constants of src/download.py, scaled down.                      *)
(***************************************************************************)
DL_NUM_WORKERS == 2

MAX_RETRIES == 2

(* The remote documents have pages 0..MaxPage; a fetch beyond fails.       *)
MaxPage == 1

(* Number of records in the discovered-items list.                         *)
NumItems == 2

(* The item ids ("iter") the records of the list can carry.                *)
Ids == 1..NumItems

(* The configured START_PAGE: the default 1, or 0.                         *)
StartPages == 0..1

(* A key the dict does not hold.                                           *)
NoEntry == -1

(* The list files download.py can find: NumItems records; an id can repeat *)
(* as after a discovery run that was restarted.  The code uses an id only  *)
(* as a dict key, so the ids are numbered in the order in which the list   *)
(* first names them.                                                       *)
ItemLists ==
    {l \in [1..NumItems -> Ids] :
        /\ l[1] = 1
        /\ \A k \in 2..NumItems : \E j \in 1..(k - 1) : l[k] <= l[j] + 1}

VARIABLES
    items,              \* JSON_FILE: the "iter" of each record, in order
    START_PAGE,         \* the configured START_PAGE
    prior,              \* PROGRESS_FILE as the run found it
    progressFile,       \* PROGRESS_FILE: the persisted mapping
    tmpFile,            \* the .tmp file of _write_atomic
    progress,           \* main's dict progress, shared with the tasks
    dl_lock,            \* holder of download.py's prog_lock, or Free
    artifacts,          \* page files written: <<iter_id, page>>
    dt,                 \* per record of the list: its download_iter task
    dmain,              \* main of download.py: position and loop index
    lastReq             \* history: per item id, the page last requested

rvars == <<items, START_PAGE, prior, progressFile, tmpFile, progress, dl_lock,
           artifacts, dt, dmain, lastReq>>

(***************************************************************************)
(* The bytes of PROGRESS_PATH during update_progress of src/discover.py.   *)
(***************************************************************************)
VARIABLES
    ckDisk,             \* PROGRESS_PATH: the characters the disk holds
    ckBuf,              \* text json.dump left in the file object's buffer
    ckPos,              \* characters of ckBuf that have reached the disk
    ckPc,               \* position inside update_progress
    ckCand,             \* the argument candidate
    ckOld,              \* history: the file's text when the call began
    ckCrashed           \* the machine went down

cvars == <<ckDisk, ckBuf, ckPos, ckPc, ckCand, ckOld, ckCrashed>>

vars == <<dvars, rvars, cvars>>

(***************************************************************************)
(* Pure helpers                                                            *)
(***************************************************************************)
Max(S) == CHOOSE x \in S : \A y \in S : y <= x

Range(s) == {s[i] : i \in 1..Len(s)}

Count(s, r) == Cardinality({i \in 1..Len(s) : s[i] = r})

(* process_iteration's classification of a probe answer.                   *)
Classify(o) ==
    CASE o = "NotFound" -> "NotFound"
      [] o \in {"HTTPError", "RequestException", "NonHTML"} -> "Fault"
      [] o = "Irrelevant" -> "Irrelevant"
      [] OTHER -> "Relevant"

(* A fault handed to buffer_result as a skipped entry.                     *)
EntryKindFaultSkipped(c) == IF c = "Relevant" THEN "item" ELSE "skipped"

(* The entry process_iteration hands to buffer_result for a class.         *)
EntryKind(c) ==
    CASE c = "Fault" -> "error"
      [] c = "Irrelevant" -> "skipped"
      [] OTHER -> "item"

(* A record of this run; run 0 marks records left by a previous run.       *)
Entry(i, k) == [iter |-> i, kind |-> k, run |-> 1]

(* A blind overwrite in place of the comparison.                           *)
ShouldAdvanceBlind(candidate, stored) == TRUE

(* The comparison with >= in place of >.                                   *)
ShouldAdvanceOrEqual(candidate, stored) == candidate >= stored

(* update_progress: candidate > prog.get("max_iter", -1)                   *)
ShouldAdvance(candidate, stored) == candidate > stored

(* A buffer_result without the skipped test.                               *)
IsSkippedNever(kind) == FALSE

(* buffer_result: entry.get("skipped")                                     *)
IsSkipped(kind) == kind = "skipped"

(* buffer_result: len(result_buf) >= BUFFER_LIMIT                          *)
BufferFull(buf) == Len(buf) >= BUFFER_LIMIT

(* flush_results: data.extend(result_buf)                                  *)
Extended(data, buf) == data \o buf

(* record_failure: consecutive_fails >= MAX_CONSECUTIVE_FAILS              *)
Tripped(n) == n >= MAX_CONSECUTIVE_FAILS

(* A lock that never blocks.                                               *)
CanAcquireAlways(lock) == TRUE

(* A "with lock:" statement may enter when nobody holds the lock.          *)
CanAcquire(lock) == lock = Free

(***************************************************************************)
(* The retrieval pass, src/download.py                                     *)
(***************************************************************************)
Entries == 1..NumItems

EmptyProgress == [i \in Ids |-> NoEntry]

NoFile == [exists |-> FALSE, data |-> EmptyProgress]

(* What a checkpoint entry reads as in a file whose text is incomplete.    *)
Unreadable == -2

(* A file opened for writing whose json.dump has not finished: it exists   *)
(* and holds part of the text.                                             *)
TornProgress == [i \in Ids |-> Unreadable]

(* A write that goes to the checkpoint file itself.                        *)
DumpTargetInPlace == "path"

(* _write_atomic: tmp = path.with_suffix(".tmp"), the file the dict is     *)
(* dumped to                                                               *)
DumpTarget == "tmp"

(* A task that was not submitted yet.                                      *)
NewTask == [pc |-> "unsubmitted", page |-> 0, attempt |-> 0, issued |-> 0,
            first |-> NoEntry, maxReq |-> NoEntry, lastOk |-> NoEntry]

(* progress.get(str(iter_id), 0)                                           *)
Get(d, id) == IF d[id] = NoEntry THEN 0 ELSE d[id]

(* main: start = last_page + 1 if last_page else START_PAGE                *)
StartFor(last_page) == IF last_page # 0 THEN last_page + 1 ELSE START_PAGE

(* A fetch_image that returns True without writing the file.               *)
WriteBytesNothing(arts, id, page) == arts

(* fetch_image: dest.write_bytes(r.content), the page file of the item     *)
WriteBytes(arts, id, page) == arts \cup {<<id, page>>}

(* download_iter: page += 1                                                *)
NextPage(page) == page + 1

(* A retry loop that goes round once more than MAX_RETRIES times.          *)
RetryLeftOffByOne(attempt) == attempt <= MAX_RETRIES

(* download_iter: for attempt in range(1, MAX_RETRIES + 1) has another     *)
(* round after the failed attempt numbered attempt.                        *)
RetryLeft(attempt) == attempt < MAX_RETRIES

(* download_iter: progress[str(iter_id)] = page                            *)
Advance(d, id, page) == [d EXCEPT ![id] = page]

(* The page files a previous run that stored the mapping d has written.    *)
PriorArtifacts(d, first) == {<<id, p>> \in Ids \X (0..MaxPage) : first <= p /\ p <= d[id]}

(* The state download.py starts from: a list file, a START_PAGE, and the   *)
(* mapping a previous run with the same START_PAGE has left (or none).     *)
RetrievalInit ==
    /\ items \in ItemLists
    /\ START_PAGE \in StartPages
    /\ prior \in {d \in [Ids -> {NoEntry} \cup (START_PAGE..MaxPage)] :
                    \A id \in Ids : (\A k \in 1..NumItems : items[k] # id) => d[id] = NoEntry}
    /\ progressFile = prior
    /\ tmpFile = NoFile
    /\ progress = EmptyProgress
    /\ dl_lock = Free
    /\ artifacts = PriorArtifacts(prior, START_PAGE)
    /\ dt = [k \in Entries |-> NewTask]
    /\ dmain = [pc |-> "load", idx |-> 1]
    /\ lastReq = EmptyProgress

(* The retrieval pass is not running.                                      *)
RetrievalIdle ==
    /\ items = [k \in Entries |-> 1]
    /\ START_PAGE = 1
    /\ prior = EmptyProgress
    /\ progressFile = EmptyProgress
    /\ tmpFile = NoFile
    /\ progress = EmptyProgress
    /\ dl_lock = Free
    /\ artifacts = {}
    /\ dt = [k \in Entries |-> NewTask]
    /\ dmain = [pc |-> "off", idx |-> 1]
    /\ lastReq = EmptyProgress

(* main: progress = load_progress()                                        *)
DLoad ==
    /\ dmain.pc = "load"
    /\ progress' = progressFile
    /\ dmain' = [dmain EXCEPT !.pc = "submit"]
    /\ UNCHANGED <<cvars, dvars, lastReq, items, START_PAGE, prior, progressFile, tmpFile, dl_lock,
                   artifacts, dt>>

(* main: one round of "for entry in items": the start page is computed     *)
(* from the dict as it is now, and download_iter is submitted.             *)
DSubmit ==
    /\ dmain.pc = "submit"
    /\ IF dmain.idx \in Entries
       THEN /\ dt' = [dt EXCEPT ![dmain.idx] =
                        [NewTask EXCEPT !.pc = "queued",
                                        !.page = StartFor(Get(progress, items[dmain.idx]))]]
            /\ dmain' = [dmain EXCEPT !.idx = @ + 1]
       ELSE /\ dmain' = [dmain EXCEPT !.pc = "wait"]
            /\ UNCHANGED dt
    /\ UNCHANGED <<cvars, dvars, lastReq, items, START_PAGE, prior, progressFile, tmpFile, progress,
                   dl_lock, artifacts>>

(* The tasks that occupy a worker thread.                                  *)
Active == {k \in Entries : dt[k].pc \notin {"unsubmitted", "queued", "done"}}

(* A free worker takes the first queued download_iter: page = start_page   *)
DStart(k) ==
    /\ dt[k].pc = "queued"
    /\ \A j \in Entries : j < k => dt[j].pc # "queued"
    /\ Cardinality(Active) < DL_NUM_WORKERS
    /\ dt' = [dt EXCEPT ![k].pc = "request", ![k].attempt = 1]
    /\ UNCHANGED <<cvars, dvars, lastReq, items, START_PAGE, prior, progressFile, tmpFile, progress,
                   dl_lock, artifacts, dmain>>

(* fetch_image: requests.get is sent.                                      *)
DRequest(k) ==
    /\ dt[k].pc = "request"
    /\ dt' = [dt EXCEPT ![k].pc = "inflight",
                        ![k].issued = @ + 1,
                        ![k].first = IF @ = NoEntry THEN dt[k].page ELSE @,
                        ![k].maxReq = IF dt[k].page > @ THEN dt[k].page ELSE @]
    /\ lastReq' = [lastReq EXCEPT ![items[k]] = dt[k].page]
    /\ UNCHANGED <<cvars, dvars, items, START_PAGE, prior, progressFile, tmpFile, progress,
                   dl_lock, artifacts, dmain>>

(* fetch_image returns: True after dest.write_bytes, or False; on False    *)
(* the retry loop goes round or, exhausted, download_iter breaks.          *)
DResponse(k, ok) ==
    /\ dt[k].pc = "inflight"
    /\ ok => dt[k].page <= MaxPage
    /\ IF ok
       THEN /\ artifacts' = WriteBytes(artifacts, items[k], dt[k].page)
            /\ dt' = [dt EXCEPT ![k].pc = "set", ![k].lastOk = dt[k].page]
       ELSE /\ dt' = [dt EXCEPT ![k].pc = IF RetryLeft(dt[k].attempt) THEN "request" ELSE "done",
                                ![k].attempt = IF RetryLeft(dt[k].attempt) THEN @ + 1 ELSE @]
            /\ UNCHANGED artifacts
    /\ UNCHANGED <<cvars, dvars, lastReq, items, START_PAGE, prior, progressFile, tmpFile, progress,
                   dl_lock, dmain>>

(* download_iter: with prog_lock: progress[str(iter_id)] = page            *)
DSetProgress(k) ==
    /\ dt[k].pc = "set"
    /\ CanAcquire(dl_lock)
    /\ progress' = Advance(progress, items[k], dt[k].page)
    /\ dt' = [dt EXCEPT ![k].pc = "save_tmp"]
    /\ UNCHANGED <<cvars, dvars, lastReq, items, START_PAGE, prior, progressFile, tmpFile, dl_lock,
                   artifacts, dmain>>

(* save_progress: with prog_lock; _write_atomic opens the dump target for  *)
(* writing, which creates it or empties it                                 *)
DSaveTmp(k) ==
    /\ dt[k].pc = "save_tmp"
    /\ CanAcquire(dl_lock)
    /\ dl_lock' = k
    /\ IF DumpTarget = "tmp"
       THEN /\ tmpFile' = [exists |-> TRUE, data |-> TornProgress]
            /\ UNCHANGED progressFile
       ELSE /\ progressFile' = TornProgress
            /\ UNCHANGED tmpFile
    /\ dt' = [dt EXCEPT ![k].pc = "save_dump"]
    /\ UNCHANGED <<cvars, dvars, lastReq, items, START_PAGE, prior, progress, artifacts, dmain>>

(* _write_atomic: json.dump(data, f) has written the dict, f is closed     *)
DSaveDump(k) ==
    /\ dt[k].pc = "save_dump"
    /\ IF DumpTarget = "tmp"
       THEN /\ tmpFile' = [exists |-> TRUE, data |-> progress]
            /\ UNCHANGED progressFile
       ELSE /\ progressFile' = progress
            /\ UNCHANGED tmpFile
    /\ dt' = [dt EXCEPT ![k].pc = "save_replace"]
    /\ UNCHANGED <<cvars, dvars, lastReq, items, START_PAGE, prior, progress, dl_lock, artifacts,
                   dmain>>

(* _write_atomic: tmp.replace(path); the lock is released; page += 1       *)
DSaveReplace(k) ==
    /\ dt[k].pc = "save_replace"
    /\ IF DumpTarget = "tmp"
       THEN /\ progressFile' = tmpFile.data
            /\ tmpFile' = NoFile
       ELSE UNCHANGED <<progressFile, tmpFile>>
    /\ dl_lock' = Free
    /\ dt' = [dt EXCEPT ![k].pc = "request", ![k].page = NextPage(@),
                        ![k].attempt = 1, ![k].issued = 0]
    /\ UNCHANGED <<cvars, dvars, lastReq, items, START_PAGE, prior, progress, artifacts, dmain>>

(* main: as_completed is exhausted and the executor is left.               *)
DFinish ==
    /\ dmain.pc = "wait"
    /\ \A k \in Entries : dt[k].pc = "done"
    /\ dmain' = [dmain EXCEPT !.pc = "done"]
    /\ UNCHANGED <<cvars, dvars, lastReq, items, START_PAGE, prior, progressFile, tmpFile, progress,
                   dl_lock, artifacts, dt>>

DNext ==
    \/ DLoad
    \/ DSubmit
    \/ \E k \in Entries : DStart(k)
    \/ \E k \in Entries : DRequest(k)
    \/ \E k \in Entries : \E ok \in BOOLEAN : DResponse(k, ok)
    \/ \E k \in Entries : DSetProgress(k)
    \/ \E k \in Entries : DSaveTmp(k)
    \/ \E k \in Entries : DSaveDump(k)
    \/ \E k \in Entries : DSaveReplace(k)
    \/ DFinish

(***************************************************************************)
(* update_progress of src/discover.py at the level of the file's text:     *)
(* what PROGRESS_PATH holds if the machine goes down during the call.      *)
(* A text is a sequence of characters.                                     *)
(***************************************************************************)
Digit(d) == <<"0", "1", "2", "3", "4", "5", "6", "7", "8", "9">>[d + 1]

RECURSIVE Digits(_)
Digits(n) == IF n < 10 THEN <<Digit(n)>> ELSE Digits(n \div 10) \o <<Digit(n % 10)>>

(* How json writes an int.                                                 *)
Number(n) == IF n < 0 THEN <<"-">> \o Digits(0 - n) ELSE Digits(n)

(* The key "max_iter" with its quotes.                                     *)
Key == <<"\"", "m", "a", "x", "_", "i", "t", "e", "r", "\"">>

(* json.dumps({"max_iter": n}): the text a fresh PROGRESS_PATH is made of  *)
Compact(n) == <<"{">> \o Key \o <<":", " ">> \o Number(n) \o <<"}">>

(* json.dump({"max_iter": n}, f, indent=2)                                 *)
Indented(n) == <<"{", "\n", " ", " ">> \o Key \o <<":", " ">> \o Number(n) \o <<"\n", "}">>

(* The values max_iter can have.                                           *)
Stored == -1..Max({MaxStart, TOTAL_ITER - 1})

(* json.load accepts the text.                                             *)
ParseOk(text) == \E n \in Stored : text = Compact(n) \/ text = Indented(n)

(* json.load(f).get("max_iter", -1) for a text it accepts.                 *)
Parse(text) == CHOOSE n \in Stored : text = Compact(n) \/ text = Indented(n)

(* The file after one more character of a write in place has reached it:  *)
(* character i of the file is replaced, or added when the file was shorter. *)
PutChar(old, i, ch) == IF i <= Len(old) THEN [old EXCEPT ![i] = ch] ELSE Append(old, ch)

(* f.truncate() with the file position after n characters.                 *)
Truncated(old, n) == SubSeq(old, 1, n)

(* update_progress is not running.                                         *)
CheckpointIdle ==
    /\ ckDisk = Compact(-1)
    /\ ckBuf = <<>>
    /\ ckPos = 0
    /\ ckPc = "off"
    /\ ckCand = -1
    /\ ckOld = Compact(-1)
    /\ ckCrashed = FALSE

(* PROGRESS_PATH as a run finds it: made by lines 22-23 or written by      *)
(* update_progress of an earlier run.                                      *)
CheckpointInit ==
    /\ ckDisk \in {Compact(-1)} \cup {Indented(n) : n \in 0..MaxStart}
    /\ ckBuf = <<>>
    /\ ckPos = 0
    /\ ckPc = "idle"
    /\ ckCand = -1
    /\ ckOld = ckDisk
    /\ ckCrashed = FALSE

(* A worker calls update_progress(c): with prog_lock, open "r+"            *)
CkCall(c) ==
    /\ ckPc = "idle"
    /\ ckCand' = c
    /\ ckOld' = ckDisk
    /\ ckPc' = "load"
    /\ UNCHANGED <<dvars, rvars, ckDisk, ckBuf, ckPos, ckCrashed>>

(* json.load, the comparison, seek(0) and json.dump, which fills the file  *)
(* object's buffer; or return False                                        *)
CkLoadDump ==
    /\ ckPc = "load"
    /\ ParseOk(ckDisk)
    /\ IF ShouldAdvance(ckCand, Parse(ckDisk))
       THEN /\ ckBuf' = Indented(ckCand)
            /\ ckPc' = "flush"
       ELSE /\ ckPc' = "idle"
            /\ UNCHANGED ckBuf
    /\ UNCHANGED <<dvars, rvars, ckDisk, ckPos, ckCand, ckOld, ckCrashed>>

(* f.truncate() first flushes the buffer: the text is written over the    *)
(* file in place from offset 0, and until the write is complete the disk   *)
(* holds a prefix of it followed by what is left of the old text.          *)
CkWrite ==
    /\ ckPc = "flush"
    /\ ckPos < Len(ckBuf)
    /\ ckDisk' = PutChar(ckDisk, ckPos + 1, ckBuf[ckPos + 1])
    /\ ckPos' = ckPos + 1
    /\ UNCHANGED <<dvars, rvars, ckBuf, ckPc, ckCand, ckOld, ckCrashed>>

(* then the file is cut at the position after the new text; return True    *)
(* closes the file and releases prog_lock.                                 *)
CkTruncate ==
    /\ ckPc = "flush"
    /\ ckPos = Len(ckBuf)
    /\ ckDisk' = Truncated(ckDisk, ckPos)
    /\ ckBuf' = <<>>
    /\ ckPos' = 0
    /\ ckPc' = "idle"
    /\ UNCHANGED <<dvars, rvars, ckCand, ckOld, ckCrashed>>

(* The machine goes down: what is in memory is gone, the disk stays.       *)
CkCrash ==
    /\ ckPc \notin {"off", "down"}
    /\ ckCrashed' = TRUE
    /\ ckBuf' = <<>>
    /\ ckPos' = 0
    /\ ckPc' = "down"
    /\ UNCHANGED <<dvars, rvars, ckDisk, ckCand, ckOld>>

CNext ==
    \/ \E c \in TaskRange : CkCall(c)
    \/ CkLoadDump
    \/ CkWrite
    \/ CkTruncate
    \/ CkCrash

(***************************************************************************)
(* The discovery pass, src/discover.py                                     *)
(***************************************************************************)
IdleThread == [pc |-> "idle", task |-> -1, kind |-> "none", tmp |-> 0, ret |-> "none"]

(* Files as discover.py finds them at start-up: created fresh, or left by  *)
(* a previous run whose only relevant task was the one at max_iter.        *)
PriorResults(k) ==
    IF k = -1 THEN <<>> ELSE <<[iter |-> k, kind |-> "item", run |-> 0]>>

Init ==
    /\ RetrievalIdle
    /\ CheckpointIdle
    /\ progFile \in -1..MaxStart
    /\ resultsFile = PriorResults(progFile)
    /\ result_buf = <<>>
    /\ consecutive_fails = 0
    /\ json_lock = Free
    /\ prog_lock = Free
    /\ fail_lock = Free
    /\ fut = [i \in TaskRange |-> "none"]
    /\ outcome = [i \in TaskRange |-> "none"]
    /\ th = [t \in Threads |-> IF t = Main THEN [IdleThread EXCEPT !.pc = "read"] ELSE IdleThread]
    /\ qhead = 0
    /\ submitted = 0
    /\ mstart = -1
    /\ seen = {}
    /\ cancelIdx = 0
    /\ exitStatus = -1
    /\ interrupted = FALSE
    /\ reported = 0
    /\ offered = {}
    /\ bhist = <<>>

(***************************************************************************)
(* Worker threads of the ThreadPoolExecutor                                *)
(***************************************************************************)
(* The task of thread w ends normally: its future is finished.             *)
Finish(w) ==
    /\ fut' = [fut EXCEPT ![th[w].task] = "finished"]
    /\ th' = [th EXCEPT ![w] = IdleThread]

(* A worker takes the next work item; a cancelled one is dropped.          *)
TakeTask(w) ==
    /\ th[w].pc = "idle"
    /\ qhead < submitted
    /\ qhead' = qhead + 1
    /\ IF fut[qhead] = "cancelled"
       THEN UNCHANGED <<fut, th>>
       ELSE /\ fut' = [fut EXCEPT ![qhead] = "running"]
            /\ th' = [th EXCEPT ![w] = [IdleThread EXCEPT !.pc = "fetch", !.task = qhead]]
    /\ UNCHANGED <<cvars, rvars, exitStatus, progFile, resultsFile, result_buf, consecutive_fails, json_lock,
                   prog_lock, fail_lock, outcome, submitted, mstart, seen, cancelIdx,
                   interrupted, reported, offered, bhist>>

(* process_iteration up to its call of buffer_result (or its return on 404) *)
Fetch(w, o) ==
    /\ th[w].pc = "fetch"
    /\ outcome' = [outcome EXCEPT ![th[w].task] = Classify(o)]
    /\ IF Classify(o) = "NotFound"
       THEN Finish(w)
       ELSE /\ th' = [th EXCEPT ![w].pc = "append", ![w].kind = EntryKind(Classify(o))]
            /\ UNCHANGED fut
    /\ UNCHANGED <<cvars, rvars, exitStatus, progFile, resultsFile, result_buf, consecutive_fails, json_lock,
                   prog_lock, fail_lock, qhead, submitted, mstart, seen, cancelIdx,
                   interrupted, reported, offered, bhist>>

(* buffer_result: the skipped test and result_buf.append(entry)            *)
BufferAppend(w) ==
    /\ th[w].pc = "append"
    /\ IF IsSkipped(th[w].kind)
       THEN /\ Finish(w)
            /\ UNCHANGED <<result_buf, offered>>
       ELSE /\ result_buf' = Append(result_buf, Entry(th[w].task, th[w].kind))
            /\ offered' = offered \cup {Entry(th[w].task, th[w].kind)}
            /\ th' = [th EXCEPT ![w].pc = "lencheck"]
            /\ UNCHANGED fut
    /\ UNCHANGED <<cvars, rvars, exitStatus, progFile, resultsFile, consecutive_fails, json_lock, prog_lock,
                   fail_lock, outcome, qhead, submitted, mstart, seen, cancelIdx,
                   interrupted, reported, bhist>>

(* Where process_iteration goes on after buffer_result returns.            *)
AfterBuffer(kind) == IF kind = "error" THEN "rf_lock" ELSE "up_lock"

(* Where a thread goes on after flush_results returns.                     *)
AfterFlush(t) == IF t = Main THEN "returned" ELSE AfterBuffer(th[t].kind)

(* The status the interpreter exits with: 1 when an exception leaves       *)
(* main(), 0 when main() returns.                                          *)
ExitStatus(uncaught) == IF uncaught THEN 1 ELSE 0

(* The end of flush_results: in a worker control goes back to              *)
(* buffer_result; in main it was the finally clause, main() returns and    *)
(* the process exits. Both except clauses of main only print, so no        *)
(* exception is left to propagate.                                         *)
FlushReturn(t) ==
    exitStatus' = IF t = Main THEN ExitStatus(FALSE) ELSE exitStatus

(* buffer_result: if len(result_buf) >= BUFFER_LIMIT: flush_results()      *)
BufferLenCheck(w) ==
    /\ th[w].pc = "lencheck"
    /\ th' = [th EXCEPT ![w].pc = IF BufferFull(result_buf) THEN "flush_check"
                                  ELSE AfterBuffer(th[w].kind)]
    /\ UNCHANGED <<cvars, rvars, exitStatus, progFile, resultsFile, result_buf, consecutive_fails, json_lock,
                   prog_lock, fail_lock, fut, outcome, qhead, submitted, mstart, seen,
                   cancelIdx, interrupted, reported, offered, bhist>>

(* flush_results: if not result_buf: return                                *)
FlushCheck(t) ==
    /\ th[t].pc = "flush_check"
    /\ th' = [th EXCEPT ![t].pc = IF result_buf = <<>> THEN AfterFlush(t) ELSE "flush_lock"]
    /\ IF result_buf = <<>> THEN FlushReturn(t) ELSE UNCHANGED exitStatus
    /\ UNCHANGED <<cvars, rvars, progFile, resultsFile, result_buf, consecutive_fails, json_lock,
                   prog_lock, fail_lock, fut, outcome, qhead, submitted, mstart, seen,
                   cancelIdx, interrupted, reported, offered, bhist>>

(* flush_results: with json_lock, RESULTS_PATH.open(...)                   *)
FlushAcquire(t) ==
    /\ th[t].pc = "flush_lock"
    /\ CanAcquire(json_lock)
    /\ json_lock' = t
    /\ th' = [th EXCEPT ![t].pc = "flush_write"]
    /\ UNCHANGED <<cvars, rvars, exitStatus, progFile, resultsFile, result_buf, consecutive_fails, prog_lock,
                   fail_lock, fut, outcome, qhead, submitted, mstart, seen, cancelIdx,
                   interrupted, reported, offered, bhist>>

(* flush_results: load, extend with the buffer as it is now, dump, and     *)
(* leave the with block.                                                   *)
FlushWrite(t) ==
    /\ th[t].pc = "flush_write"
    /\ resultsFile' = Extended(resultsFile, result_buf)
    /\ json_lock' = Free
    /\ th' = [th EXCEPT ![t].pc = "flush_clear"]
    /\ UNCHANGED <<cvars, rvars, exitStatus, progFile, result_buf, consecutive_fails, prog_lock, fail_lock, fut,
                   outcome, qhead, submitted, mstart, seen, cancelIdx, interrupted,
                   reported, offered, bhist>>

(* flush_results: result_buf.clear(), after the with block                 *)
FlushClear(t) ==
    /\ th[t].pc = "flush_clear"
    /\ result_buf' = <<>>
    /\ th' = [th EXCEPT ![t].pc = AfterFlush(t)]
    /\ FlushReturn(t)
    /\ UNCHANGED <<cvars, rvars, progFile, resultsFile, consecutive_fails, json_lock, prog_lock,
                   fail_lock, fut, outcome, qhead, submitted, mstart, seen, cancelIdx,
                   interrupted, reported, offered, bhist>>

(* record_failure: with fail_lock, and the read of consecutive_fails += 1  *)
RecordFailureAcquire(w) ==
    /\ th[w].pc = "rf_lock"
    /\ CanAcquire(fail_lock)
    /\ fail_lock' = w
    /\ th' = [th EXCEPT ![w].pc = "rf_store", ![w].tmp = consecutive_fails]
    /\ UNCHANGED <<cvars, rvars, exitStatus, progFile, resultsFile, result_buf, consecutive_fails, json_lock,
                   prog_lock, fut, outcome, qhead, submitted, mstart, seen, cancelIdx,
                   interrupted, reported, offered, bhist>>

(* record_failure: the store of consecutive_fails += 1, the comparison and *)
(* the release; then process_iteration raises RuntimeError or returns.     *)
RecordFailureStore(w) ==
    /\ th[w].pc = "rf_store"
    /\ consecutive_fails' = th[w].tmp + 1
    /\ fail_lock' = Free
    /\ bhist' = Append(bhist, [op |-> "fail", prev |-> consecutive_fails,
                               val |-> th[w].tmp + 1, ret |-> Tripped(th[w].tmp + 1)])
    /\ fut' = [fut EXCEPT ![th[w].task] = IF Tripped(th[w].tmp + 1) THEN "raised"
                                           ELSE "finished"]
    /\ th' = [th EXCEPT ![w] = IdleThread]
    /\ UNCHANGED <<cvars, rvars, exitStatus, progFile, resultsFile, result_buf, json_lock, prog_lock, outcome,
                   qhead, submitted, mstart, seen, cancelIdx, interrupted, reported,
                   offered>>

(* update_progress: with prog_lock, open, json.load                        *)
UpdateProgressAcquire(w) ==
    /\ th[w].pc = "up_lock"
    /\ CanAcquire(prog_lock)
    /\ prog_lock' = w
    /\ th' = [th EXCEPT ![w].pc = "up_write", ![w].tmp = progFile]
    /\ UNCHANGED <<cvars, rvars, exitStatus, progFile, resultsFile, result_buf, consecutive_fails, json_lock,
                   fail_lock, fut, outcome, qhead, submitted, mstart, seen, cancelIdx,
                   interrupted, reported, offered, bhist>>

(* update_progress: the comparison, the rewrite of the file, the release   *)
(* and the returned bool.                                                  *)
UpdateProgressWrite(w) ==
    /\ th[w].pc = "up_write"
    /\ IF ShouldAdvance(th[w].task, th[w].tmp)
       THEN /\ progFile' = th[w].task
            /\ th' = [th EXCEPT ![w].pc = "reset", ![w].ret = "true"]
       ELSE /\ UNCHANGED progFile
            /\ th' = [th EXCEPT ![w].pc = "reset", ![w].ret = "false"]
    /\ prog_lock' = Free
    /\ UNCHANGED <<cvars, rvars, exitStatus, resultsFile, result_buf, consecutive_fails, json_lock, fail_lock,
                   fut, outcome, qhead, submitted, mstart, seen, cancelIdx, interrupted,
                   reported, offered, bhist>>

(* reset_failure_counter, and the end of process_iteration                 *)
ResetFailureCounter(w) ==
    /\ th[w].pc = "reset"
    /\ CanAcquire(fail_lock)
    /\ consecutive_fails' = 0
    /\ bhist' = Append(bhist, [op |-> "reset", prev |-> consecutive_fails,
                               val |-> 0, ret |-> FALSE])
    /\ Finish(w)
    /\ UNCHANGED <<cvars, rvars, exitStatus, progFile, resultsFile, result_buf, json_lock, prog_lock, fail_lock,
                   outcome, qhead, submitted, mstart, seen, cancelIdx, interrupted,
                   reported, offered>>

(***************************************************************************)
(* main                                                                    *)
(***************************************************************************)
(* start = json.loads(PROGRESS_PATH.read_text()).get("max_iter", -1)       *)
MainRead ==
    /\ th[Main].pc = "read"
    /\ mstart' = progFile
    /\ th' = [th EXCEPT ![Main].pc = "submit"]
    /\ UNCHANGED <<cvars, rvars, exitStatus, progFile, resultsFile, result_buf, consecutive_fails, json_lock,
                   prog_lock, fail_lock, fut, outcome, qhead, submitted, seen, cancelIdx,
                   interrupted, reported, offered, bhist>>

(* executor.submit(process_iteration, i) for i in range(TOTAL_ITER)        *)
MainSubmit ==
    /\ th[Main].pc = "submit"
    /\ IF submitted \in TaskRange
       THEN /\ fut' = [fut EXCEPT ![submitted] = "pending"]
            /\ submitted' = submitted + 1
            /\ UNCHANGED th
       ELSE /\ th' = [th EXCEPT ![Main].pc = "wait"]
            /\ UNCHANGED <<fut, submitted>>
    /\ UNCHANGED <<cvars, rvars, exitStatus, progFile, resultsFile, result_buf, consecutive_fails, json_lock,
                   prog_lock, fail_lock, outcome, qhead, mstart, seen, cancelIdx,
                   interrupted, reported, offered, bhist>>

(* for future in as_completed(futures): future.result()                    *)
MainAsCompleted(i) ==
    /\ th[Main].pc = "wait"
    /\ i \in TaskRange \ seen
    /\ fut[i] \in {"finished", "raised"}
    /\ seen' = seen \cup {i}
    /\ IF fut[i] = "raised"
       THEN /\ reported' = reported + 1
            /\ th' = [th EXCEPT ![Main].pc = "cancel"]
       ELSE UNCHANGED <<reported, th>>
    /\ UNCHANGED <<cvars, rvars, exitStatus, progFile, resultsFile, result_buf, consecutive_fails, json_lock,
                   prog_lock, fail_lock, fut, outcome, qhead, submitted, mstart,
                   cancelIdx, interrupted, offered, bhist>>

(* as_completed is exhausted: the with block is left.                      *)
MainLoopEnd ==
    /\ th[Main].pc = "wait"
    /\ seen = TaskRange
    /\ th' = [th EXCEPT ![Main].pc = "exit"]
    /\ UNCHANGED <<cvars, rvars, exitStatus, progFile, resultsFile, result_buf, consecutive_fails, json_lock,
                   prog_lock, fail_lock, fut, outcome, qhead, submitted, mstart, seen,
                   cancelIdx, interrupted, reported, offered, bhist>>

(* for f in futures: f.cancel(), then break                                *)
MainCancel ==
    /\ th[Main].pc = "cancel"
    /\ IF cancelIdx \in TaskRange
       THEN /\ fut' = [fut EXCEPT ![cancelIdx] = IF @ = "pending" THEN "cancelled" ELSE @]
            /\ cancelIdx' = cancelIdx + 1
            /\ UNCHANGED th
       ELSE /\ th' = [th EXCEPT ![Main].pc = "exit"]
            /\ UNCHANGED <<fut, cancelIdx>>
    /\ UNCHANGED <<cvars, rvars, exitStatus, progFile, resultsFile, result_buf, consecutive_fails, json_lock,
                   prog_lock, fail_lock, outcome, qhead, submitted, mstart, seen,
                   interrupted, reported, offered, bhist>>

(* The executor's queue is drained and every worker is idle.               *)
PoolQuiet == qhead = submitted /\ \A w \in Workers : th[w].pc = "idle"

(* ThreadPoolExecutor.__exit__: shutdown(wait=True) joins the workers,     *)
(* which first work off every queued item that was not cancelled; then the *)
(* finally clause calls flush_results.                                     *)
MainExit ==
    /\ th[Main].pc = "exit"
    /\ PoolQuiet
    /\ th' = [th EXCEPT ![Main].pc = "flush_check"]
    /\ UNCHANGED <<cvars, rvars, exitStatus, progFile, resultsFile, result_buf, consecutive_fails, json_lock,
                   prog_lock, fail_lock, fut, outcome, qhead, submitted, mstart, seen,
                   cancelIdx, interrupted, reported, offered, bhist>>

(* KeyboardInterrupt in the main thread inside the try block.  Raised in   *)
(* the body of the with statement it runs __exit__ first; raised while     *)
(* __exit__ is joining the workers it ends the join, and the except and    *)
(* finally clauses run at once.                                            *)
KeyboardInterrupt ==
    /\ th[Main].pc \in {"submit", "wait", "cancel", "exit"}
    /\ interrupted' = TRUE
    /\ th' = [th EXCEPT ![Main].pc = IF th[Main].pc = "exit" THEN "flush_check" ELSE "exit"]
    /\ UNCHANGED <<cvars, rvars, exitStatus, progFile, resultsFile, result_buf, consecutive_fails, json_lock,
                   prog_lock, fail_lock, fut, outcome, qhead, submitted, mstart, seen,
                   cancelIdx, reported, offered, bhist>>

Next ==
    \/ \E w \in Workers : TakeTask(w)
    \/ \E w \in Workers : \E o \in Probes : Fetch(w, o)
    \/ \E w \in Workers : BufferAppend(w)
    \/ \E w \in Workers : BufferLenCheck(w)
    \/ \E t \in Threads : FlushCheck(t)
    \/ \E t \in Threads : FlushAcquire(t)
    \/ \E t \in Threads : FlushWrite(t)
    \/ \E t \in Threads : FlushClear(t)
    \/ \E w \in Workers : RecordFailureAcquire(w)
    \/ \E w \in Workers : RecordFailureStore(w)
    \/ \E w \in Workers : UpdateProgressAcquire(w)
    \/ \E w \in Workers : UpdateProgressWrite(w)
    \/ \E w \in Workers : ResetFailureCounter(w)
    \/ MainRead
    \/ MainSubmit
    \/ \E i \in TaskRange : MainAsCompleted(i)
    \/ MainLoopEnd
    \/ MainCancel
    \/ MainExit
    \/ KeyboardInterrupt

Spec == Init /\ [][Next]_vars

(* The discovery pass is not running.                                      *)
DiscoveryIdle ==
    /\ progFile = -1
    /\ resultsFile = <<>>
    /\ result_buf = <<>>
    /\ consecutive_fails = 0
    /\ json_lock = Free
    /\ prog_lock = Free
    /\ fail_lock = Free
    /\ fut = [i \in TaskRange |-> "none"]
    /\ outcome = [i \in TaskRange |-> "none"]
    /\ th = [t \in Threads |-> IdleThread]
    /\ qhead = 0
    /\ submitted = 0
    /\ mstart = -1
    /\ seen = {}
    /\ cancelIdx = 0
    /\ exitStatus = -1
    /\ interrupted = FALSE
    /\ reported = 0
    /\ offered = {}
    /\ bhist = <<>>

DInit == DiscoveryIdle /\ RetrievalInit /\ CheckpointIdle

SpecDownload == DInit /\ [][DNext]_vars

CInit == DiscoveryIdle /\ RetrievalIdle /\ CheckpointInit

SpecCheckpoint == CInit /\ [][CNext]_vars

(***************************************************************************)
(* Properties of the discovery pass                                        *)
(***************************************************************************)
(* Every submitted task index has run to its end.                          *)
AllTasksCompleted == \A i \in TaskRange : fut[i] \in {"finished", "raised"}

(* Indices of the tasks that ended with a Relevant outcome.                *)
RelevantDone == {i \in TaskRange : outcome[i] = "Relevant" /\ fut[i] = "finished"}

C2_CheckpointMonotone ==
    [][/\ progFile' >= progFile
       /\ \A w \in Workers :
            (th[w].pc = "up_write" /\ th'[w].pc = "reset") =>
                /\ outcome[th[w].task] = "Relevant"
                /\ (th'[w].ret = "true") <=> (th[w].task > progFile)
                /\ progFile' = IF th[w].task > progFile THEN th[w].task ELSE progFile
       /\ (progFile' # progFile) =>
            \E w \in Workers : th[w].pc = "up_write" /\ th'[w].pc = "reset"
      ]_vars

(* C2 witness: update_progress has returned false for a Relevant task that *)
(* completed after a Relevant task of higher index advanced the checkpoint *)
C2_Witness ==
    \E w \in Workers :
        /\ th[w].pc = "reset"
        /\ th[w].ret = "false"
        /\ progFile > th[w].task
        /\ progFile > mstart
        /\ progFile \in RelevantDone

(* C3: after any interleaving of buffer_result calls followed by the       *)
(* terminal flush_results (main was not interrupted, so its flush started  *)
(* after the last worker stopped), the durable collection has grown by     *)
(* exactly the records offered: each of them is in it exactly once.        *)
C3_FlushComplete ==
    (th[Main].pc = "returned" /\ PoolQuiet /\ ~interrupted) =>
        /\ \A r \in offered : Count(resultsFile, r) = 1
        /\ Len(resultsFile) = Len(PriorResults(mstart)) + Cardinality(offered)

(* The calls of record_failure in the breaker history.                     *)
FailCalls == {k \in 1..Len(bhist) : bhist[k].op = "fail"}

(* The number of record_failure calls since the last reset.                *)
RECURSIVE Streak(_)
Streak(h) ==
    IF h = <<>> \/ h[Len(h)].op = "reset" THEN 0
    ELSE 1 + Streak(SubSeq(h, 1, Len(h) - 1))

(* C4: every record_failure adds one to the counter it finds and returns   *)
(* true iff the result is >= MAX_CONSECUTIVE_FAILS, no increment is lost;  *)
(* exactly threshold-many failures without a reset return true once, on    *)
(* the last call, the only one to see the counter at the threshold; with   *)
(* one reset between two of those failures no call returns true.           *)
C4_BreakerAtomic ==
    /\ \A k \in FailCalls :
        /\ bhist[k].val = bhist[k].prev + 1
        /\ bhist[k].ret <=> (bhist[k].val >= MAX_CONSECUTIVE_FAILS)
    /\ fail_lock = Free => consecutive_fails = Streak(bhist)
    /\ (Len(bhist) = MAX_CONSECUTIVE_FAILS /\ FailCalls = 1..Len(bhist)) =>
        /\ {k \in FailCalls : bhist[k].ret} = {MAX_CONSECUTIVE_FAILS}
        /\ {k \in FailCalls : bhist[k].val = MAX_CONSECUTIVE_FAILS} = {MAX_CONSECUTIVE_FAILS}
    /\ \A r \in 2..MAX_CONSECUTIVE_FAILS :
        (Len(bhist) = MAX_CONSECUTIVE_FAILS + 1 /\ FailCalls = (1..Len(bhist)) \ {r}) =>
            \A k \in FailCalls : ~bhist[k].ret

(* C4 witness: threshold-many record_failure calls, made by two workers    *)
(* that were inside process_iteration at the same time, the last one true. *)
C4_Witness ==
    /\ Len(bhist) = MAX_CONSECUTIVE_FAILS
    /\ FailCalls = 1..Len(bhist)
    /\ bhist[Len(bhist)].ret
    /\ qhead = MAX_CONSECUTIVE_FAILS
    /\ \A i \in 0..(MAX_CONSECUTIVE_FAILS - 1) : fut[i] \in {"finished", "raised"}
    /\ fut[0] = "raised"

(* C6: a run resumed from max_iter = K persists no record of its own with  *)
(* an index <= K: its task indices start strictly after K.                 *)
C6_NoRescan ==
    /\ \A k \in 1..Len(resultsFile) :
        resultsFile[k].run = 1 => resultsFile[k].iter > mstart
    /\ \A i \in TaskRange : fut[i] = "running" => i > mstart

(* C10: when main returns every worker has stopped, the buffer is empty    *)
(* and every record offered is in the durable collection.                  *)
C10_ShutdownFlushed ==
    th[Main].pc = "returned" =>
        /\ PoolQuiet
        /\ result_buf = <<>>
        /\ \A r \in offered : r \in Range(resultsFile)

(***************************************************************************)
(* Properties of the retrieval pass                                        *)
(***************************************************************************)
(* The record k is the only one of the list with its item id.              *)
OnlyEntry(k) == \A j \in Entries : items[j] = items[k] => j = k

(* C5: a download_iter loop that ended after page N succeeded has sent     *)
(* exactly MAX_RETRIES requests for page N + 1 and none for a later page;  *)
(* the item's checkpoint, in memory and persisted, is N and not N + 1      *)
(* (the mapping is read by item id, so for an id that one loop serves).    *)
C5_RetryExhaustion ==
    \A k \in Entries :
        (dt[k].pc = "done" /\ dt[k].lastOk # NoEntry) =>
            /\ dt[k].page = dt[k].lastOk + 1
            /\ dt[k].maxReq = dt[k].lastOk + 1
            /\ dt[k].issued = MAX_RETRIES
            /\ dt[k].attempt = MAX_RETRIES
            /\ OnlyEntry(k) =>
                /\ progress[items[k]] = dt[k].lastOk
                /\ progressFile[items[k]] = dt[k].lastOk

(* C5 witness: a loop has ended on retry exhaustion one page after the     *)
(* checkpoint it stored, while the loop of another item is still running.  *)
C5_Witness ==
    \E k, j \in Entries :
        /\ dt[k].pc = "done"
        /\ dt[k].lastOk # NoEntry
        /\ dt[k].lastOk > prior[items[k]]
        /\ progressFile[items[k]] = dt[k].lastOk
        /\ items[j] # items[k]
        /\ dt[j].pc = "inflight"

(* C7: with a persisted checkpoint P for an item the first page requested  *)
(* is P + 1, without one it is START_PAGE; stated for the items that one   *)
(* record of the list names.                                               *)
C7_ResumePage ==
    \A k \in Entries :
        (OnlyEntry(k) /\ dt[k].first # NoEntry) =>
            dt[k].first = IF prior[items[k]] = NoEntry THEN START_PAGE
                          ELSE prior[items[k]] + 1

(* C8: the checkpoint entry of every item id, in memory and persisted,     *)
(* never decreases during a retrieval run, whatever the list.              *)
C8_CheckpointNeverDecreases ==
    [][\A id \in Ids : /\ progress'[id] >= progress[id]
                       /\ progressFile'[id] >= progressFile[id]]_vars

(* C9: per item id at most one fetch is in flight, the page requested      *)
(* never decreases, and it goes up by exactly one and only after the page  *)
(* before was fetched.                                                     *)
C9_SequentialPerItem ==
    [][\A k \in Entries :
          (dt[k].pc = "request" /\ dt'[k].pc = "inflight") =>
              /\ \A j \in Entries \ {k} : items[j] = items[k] => dt[j].pc # "inflight"
              /\ lastReq[items[k]] # NoEntry =>
                  /\ dt[k].page >= lastReq[items[k]]
                  /\ dt[k].page > lastReq[items[k]] =>
                      /\ dt[k].page = lastReq[items[k]] + 1
                      /\ \E j \in Entries : /\ items[j] = items[k]
                                            /\ dt[j].lastOk = lastReq[items[k]]
      ]_vars

(***************************************************************************)
(* Abort, interruption and crash behaviour of the discovery pass           *)
(***************************************************************************)
(* A record_failure call has returned true: the abort condition has fired. *)
AbortFired == \E k \in FailCalls : bhist[k].ret

(* C11: once a record_failure call has returned true no task that had not  *)
(* started begins executing, and when main returns every task has finished *)
(* or was cancelled and the abort has been reported exactly once.          *)
C11_AbortStopsDispatch ==
    [][AbortFired =>
          /\ \A i \in TaskRange : fut[i] # "running" => fut'[i] # "running"
          /\ th'[Main].pc = "returned" =>
                /\ reported' = 1
                /\ \A i \in TaskRange : fut'[i] \in {"finished", "raised", "cancelled"}
      ]_vars

(* C12: a run that ended on the failure threshold (main printed the        *)
(* RuntimeError) exits, after the last flush, with a status other than the *)
(* one of a normal completion; a normal or interrupted run exits with      *)
(* status 0.                                                               *)
C12_AbortExitsWithFailure ==
    th[Main].pc = "returned" =>
        /\ ~interrupted => result_buf = <<>>
        /\ (reported > 0 /\ ~interrupted) => exitStatus # ExitStatus(FALSE)
        /\ reported = 0 => exitStatus = ExitStatus(FALSE)

(* C13: between the step in which a flush_results call reads the buffer    *)
(* (load, extend, dump under json_lock) and the step in which it clears    *)
(* the buffer, no other thread appends to the buffer and no other          *)
(* flush_results call loads, extends or persists the durable collection    *)
(* (already in runs that no KeyboardInterrupt cuts short).                 *)
C13_FlushExcludesAppend ==
    [][\A t \in Threads :
          (th[t].pc = "flush_clear" /\ th'[t].pc = "flush_clear" /\ ~interrupted) =>
              /\ result_buf' = result_buf
              /\ resultsFile' = resultsFile
      ]_vars

(* C14: in every state of a run the persisted checkpoint is the value the  *)
(* run started from or the index of an item record of this run that is     *)
(* already in the durable collection.                                      *)
C14_CheckpointBehindDurable ==
    th[Main].pc # "read" =>
        \/ progFile = mstart
        \/ Entry(progFile, "item") \in Range(resultsFile)

(* C15: if the machine goes down at any step of update_progress, the text  *)
(* PROGRESS_PATH is left with is the complete old record or the complete   *)
(* new one.                                                                *)
C15_CheckpointWriteAtomic ==
    ckCrashed => \/ ckDisk = ckOld
                 \/ ckDisk = Indented(ckCand)

(***************************************************************************)
(* Crash behaviour of the retrieval pass                                   *)
(***************************************************************************)
(* The download_iter tasks that are inside _write_atomic.                  *)
Writers == {k \in Entries : dt[k].pc \in {"save_dump", "save_replace"}}

(* C16: whatever step a crash cuts save_progress at, PROGRESS_FILE holds   *)
(* a complete mapping, the one before the write or the one being written:  *)
(* it changes only in the step of tmp.replace, made by the one task that   *)
(* holds prog_lock, and every replace stores the whole in-memory dict as   *)
(* it is at that moment; at most one task is inside _write_atomic.         *)
C16_SaveProgressAtomic ==
    [][/\ \A id \in Ids : progressFile'[id] # Unreadable
       /\ progressFile' \in {progressFile, progress}
       /\ \A k \in Entries :
            (dt[k].pc = "save_replace" /\ dt'[k].pc # "save_replace") =>
                /\ dl_lock = k
                /\ progressFile' = progress
                /\ progressFile' = tmpFile.data
       /\ (progressFile' # progressFile) =>
            \E k \in Entries : dt[k].pc = "save_replace" /\ dt'[k].pc # "save_replace"
       /\ Cardinality(Writers') <= 1
       /\ \A k \in Writers' : dl_lock' = k
      ]_vars

(* C16 witness: a task is in the middle of its dump, the .tmp file holds   *)
(* incomplete text, PROGRESS_FILE still holds the complete mapping of the  *)
(* write before, which lacks the page being saved, and another task waits  *)
(* for prog_lock with its own page already set in memory.                  *)
C16_Witness ==
    \E k, j \in Entries :
        /\ dt[k].pc = "save_dump"
        /\ tmpFile = [exists |-> TRUE, data |-> TornProgress]
        /\ progressFile # prior
        /\ progressFile # progress
        /\ \A id \in Ids : progressFile[id] # Unreadable
        /\ dt[j].pc = "save_tmp"
        /\ items[j] # items[k]

(***************************************************************************)
(* Outcome handling of the discovery tasks                                 *)
(***************************************************************************)
(* The worker w takes a step of process_iteration in this transition.      *)
Steps(w) == th'[w] # th[w] /\ th[w].pc # "idle"

(* The task a worker is running is classified as one of the outcomes.      *)
Running(w, outcomes) == th[w].pc # "idle" /\ outcome'[th[w].task] \in outcomes

(* C17: no step of a task whose outcome is Not-Found or Irrelevant changes *)
(* the result buffer, the durable collection, the checkpoint or the        *)
(* failure counter, and such a task ends without calling record_failure,   *)
(* update_progress or reset_failure_counter; the counter is reset to zero  *)
(* only by a task whose outcome is Relevant.                               *)
C17_QuietOutcomes ==
    [][/\ \A w \in Workers :
            (Steps(w) /\ Running(w, {"NotFound", "Irrelevant"})) =>
                /\ UNCHANGED <<result_buf, resultsFile, progFile, consecutive_fails,
                               offered, bhist>>
                /\ th'[w].pc = "idle" \/ (th[w].pc = "fetch" /\ th'[w].pc = "append")
                /\ th'[w].pc = "idle" => fut'[th[w].task] = "finished"
       /\ (Len(bhist') > Len(bhist) /\ bhist'[Len(bhist')].op = "reset") =>
            \E w \in Workers : /\ Steps(w)
                               /\ Running(w, {"Relevant"})
                               /\ consecutive_fails' = 0
      ]_vars

(* C17 witness: an Irrelevant and a Not-Found task have ended while a      *)
(* failure streak was alive and a record sat in the buffer; both are still *)
(* there.                                                                  *)
C17_Witness ==
    \E i, j \in TaskRange :
        /\ outcome[i] = "Irrelevant" /\ fut[i] = "finished"
        /\ outcome[j] = "NotFound" /\ fut[j] = "finished"
        /\ consecutive_fails = 1
        /\ Streak(bhist) = 1
        /\ result_buf # <<>>
        /\ progFile = mstart

(* C18: a task whose probe faults appends its error record to the buffer   *)
(* once and only once, adds exactly one to the failure counter, never      *)
(* touches the checkpoint, and ends only itself: none of its steps changes *)
(* another thread or another task's future. Main's abort (report, cancel)  *)
(* and a raised future occur only after a record_failure returned true.    *)
C18_FaultIsLocal ==
    [][/\ \A w \in Workers :
            (Steps(w) /\ Running(w, {"Fault"})) =>
                /\ progFile' = progFile
                /\ \A v \in Threads \ {w} : th'[v] = th[v]
                /\ \A j \in TaskRange \ {th[w].task} : fut'[j] = fut[j]
                /\ th[w].pc = "append" =>
                    /\ Entry(th[w].task, "error") \notin offered
                    /\ result_buf' = Append(result_buf, Entry(th[w].task, "error"))
                /\ th[w].pc # "append" => result_buf' \in {result_buf, <<>>}
                /\ consecutive_fails' =
                        IF th[w].pc = "rf_store" THEN consecutive_fails + 1
                        ELSE consecutive_fails
                /\ th'[w].pc = "idle" =>
                    /\ th[w].pc = "rf_store"
                    /\ Entry(th[w].task, "error") \in offered
                    /\ fut'[th[w].task] = IF bhist'[Len(bhist')].ret THEN "raised"
                                          ELSE "finished"
       /\ (\/ th'[Main].pc = "cancel"
           \/ reported' > 0
           \/ \E i \in TaskRange : fut'[i] \in {"raised", "cancelled"}) => AbortFired'
      ]_vars

(* C18 witness: a faulted task has ended with its error record buffered    *)
(* and the counter at one, while a sibling that was running beside it goes *)
(* on with a Relevant outcome; nothing was aborted.                        *)
C18_Witness ==
    \E i, j \in TaskRange : \E w \in Workers :
        /\ outcome[i] = "Fault" /\ fut[i] = "finished"
        /\ Entry(i, "error") \in offered
        /\ consecutive_fails = 1
        /\ j < i
        /\ th[w].task = j /\ th[w].pc = "up_lock"
        /\ outcome[j] = "Relevant" /\ fut[j] = "running"
        /\ ~AbortFired
        /\ \A k \in TaskRange : fut[k] # "cancelled"

(* C19: after a KeyboardInterrupt in main no task that had not started     *)
(* begins executing, the tasks that were running finish, and when main     *)
(* returns the workers have stopped and the result buffer is empty.        *)
C19_InterruptDrains ==
    [][interrupted =>
          /\ \A i \in TaskRange : fut[i] # "running" => fut'[i] # "running"
          /\ th'[Main].pc = "returned" =>
                /\ \A i \in TaskRange : fut'[i] # "running"
                /\ result_buf' = <<>>
      ]_vars

====
